---- MODULE Spec2Model ----
(***************************************************************************)
(* RecLog: the recorder lifecycle layer.                                   *)
(*                                                                         *)
(* A CompositeRecorder (Recorder/composite_recorder.py) owns an ordered    *)
(* collection of recorders: a TmuxAsciinemaRecorder                        *)
(* (Recorder/asciinema_recorder.py), a VideoRecorder                       *)
(* (Recorder/video_recorder.py) and any other AbstractRecorder subclass    *)
(* (Recorder/ab_recorder.py).  One control thread calls the recorders'     *)
(* methods; every VideoRecorder.start_recording creates one capture thread *)
(* that spawns and waits for one encoder process.                          *)
(*                                                                         *)
(* The control thread is a two-level call stack: a composite method in     *)
(* progress (c_op, c_i, results) and a member method in progress (m_pc).   *)
(* A method that blocks (subprocess.run, a poll loop, Popen.wait, a join)  *)
(* is cut at its blocking points; everything between two blocking points   *)
(* is one step.                                                            *)
(***************************************************************************)
EXTENDS Integers, Sequences, FiniteSets, TLC

VARIABLES
    \* CompositeRecorder fields
    recorders,          \* self.recorders: the ordered collection
    c_is_recording,     \* self._is_recording
    tmux_recorder,      \* self._tmux_recorder (None or a member)
    video_recorder,     \* self._video_recorder (None or a member)
    \* TmuxAsciinemaRecorder fields and the multiplexer
    t_is_recording,     \* self._is_recording
    session,            \* does the tmux session named tmux_session_name exist
    asciinema,          \* the asciinema process AsciinemaManager runs
    \* VideoRecorder fields, its capture threads and encoder processes
    v_is_recording,     \* self._is_recording
    v_process,          \* self._process (None or a process)
    v_thread,           \* self._thread (None or a thread)
    thread,             \* thread[i]: position of capture thread i
    proc,               \* proc[i]: the encoder process spawned by thread i
    file,               \* the video file self._output_file on disk
    video_quality,      \* self.video_quality
    v_settings,         \* the encoder settings in the last ffmpeg command built
    now,                \* datetime.now(), in whole seconds since construction
    started_at,         \* datetime.now() at the last start_recording
    \* the session configuration shared by the recorders
    project,            \* session_config.project_name
    \* the control thread
    c_op,               \* composite method in progress
    c_i,                \* position in that method's sequence of member calls
    results,            \* the local `results` of CompositeRecorder.stop_recording
    cret,               \* what the last composite method returned or raised
    m_pc,               \* member method in progress, at its blocking point
    ret,                \* what the last member method returned or raised
    calls,              \* ordered event log of the current top-level call
    phase,              \* how far the caller is in setup, start, wait, stop
    n_calls             \* top-level calls the caller has made

compVars  == <<recorders, c_is_recording, tmux_recorder, video_recorder>>
tmuxVars  == <<t_is_recording, session, asciinema>>
videoVars == <<v_is_recording, v_process, v_thread, thread, proc, file,
               video_quality, v_settings, now, started_at>>
ctlVars   == <<c_op, c_i, results, cret, m_pc, ret, calls, phase>>
vars      == <<compVars, tmuxVars, videoVars, project, n_calls, ctlVars>>

(***************************************************************************)
(* Bounds and objects                                                      *)
(***************************************************************************)
\* capture threads (and so encoder processes) one VideoRecorder may create
MaxThreads == 2
\* top-level calls the caller makes
MaxCalls == 4
\* the clock stops at two days after construction
MaxClock == 172800

\* Python's None, for an optional reference or handle
None == 0
\* the recorder objects: one instance of each class
Tmux  == 1
Video == 2
Fake  == 3
\* the composite itself, as the target of a logged call
Composite == 4

Recorder == {Tmux, Video, Fake}
Threads  == 1..MaxThreads
Projects == {"demo", "other"}

\* type(recorder).__name__
TypeName(r) ==
    CASE r = Tmux  -> "TmuxAsciinemaRecorder"
      [] r = Video -> "VideoRecorder"
      [] OTHER     -> "FakeRecorder"

\* {} : the empty dict (also stands for a method returning nothing)
EmptyDict == [k \in {} |-> {}]
\* bool(d) of a dict
Truthy(d) == DOMAIN d # {}

NoReturn == [m |-> "none", r |-> None, exc |-> "none", val |-> EmptyDict]
NoCReturn == [op |-> "none", exc |-> "none", val |-> EmptyDict]

Range(s) == {s[k] : k \in DOMAIN s}
\* sequences without repetition over S
RECURSIVE Perms(_)
Perms(S) ==
    IF S = {} THEN {<<>>}
    ELSE UNION {{<<x>> \o p : p \in Perms(S \ {x})} : x \in S}
Lists(S) == UNION {Perms(U) : U \in SUBSET S}
\* list.remove(x) for a list holding x once
Remove(s, x) == SelectSeq(s, LAMBDA y : y # x)
\* first index of event e in log s, 0 when absent
IndexOf(s, e) ==
    IF e \in Range(s) THEN CHOOSE k \in DOMAIN s : s[k] = e /\ \A j \in 1..(k-1) : s[j] # e
    ELSE 0

(***************************************************************************)
(* Results                                                                 *)
(***************************************************************************)
\* a faulty result that leaves the tmux log directory out (C5 excludes it)
TmuxResultWithoutLogs ==
    [outputs  |-> [asciinema   |-> "asciinema_file",
                   zsh_history |-> "zsh_history_file"],
     metadata |-> [project_name |-> project]]

\* the dict TmuxAsciinemaRecorder.stop_recording returns when it was recording
TmuxResult ==
    [outputs  |-> [asciinema   |-> "asciinema_file",
                   zsh_history |-> "zsh_history_file",
                   tmux_logs   |-> "tmux_log_dir"],
     metadata |-> [project_name |-> project]]

\* self._start_time: datetime.now() in __init__, where the clock starts;
\* start_recording does not assign it
StartTime == 0

\* timedelta.seconds of a duration of d whole seconds: the seconds within the
\* day, the days are held by timedelta.days
TimedeltaSeconds(d) == d % 86400

\* the fields of f"{hours}h_{minutes}m_{seconds}s" for duration d:
\* divmod(duration.seconds, 3600) and divmod(remainder, 60)
FormatTime(d) ==
    LET hours     == TimedeltaSeconds(d) \div 3600
        remainder == TimedeltaSeconds(d) % 3600
    IN [hours |-> hours, minutes |-> remainder \div 60, seconds |-> remainder % 60]

\* the dict VideoRecorder.stop_recording returns for a non-empty video file
\* (of the metadata the project name and the formatted time)
VideoResult ==
    [outputs  |-> [video |-> "video_file"],
     metadata |-> [project_name |-> project,
                   time         |-> FormatTime(now - StartTime)]]

\* a non-empty dict returned by some other AbstractRecorder subclass
FakeResult ==
    [outputs  |-> [fake |-> "fake_file"],
     metadata |-> [project_name |-> project]]

(***************************************************************************)
(* Call and return on the control thread                                   *)
(***************************************************************************)
\* the caller may make its next top-level call
Idle == c_op = "none" /\ m_pc = "idle"

\* the caller calls in any order
Free == phase = "free"

\* the caller makes a top-level call: any call, within the budget, or the
\* next call of its run when it is at `at`
Call(at) ==
    /\ Idle
    /\ IF Free
       THEN /\ n_calls < MaxCalls
            /\ n_calls' = n_calls + 1
       ELSE /\ phase = at
            /\ UNCHANGED n_calls

\* a faulty collection that also stores empty results (C18 excludes it)
CollectEmptyToo(res, r, val) == (TypeName(r) :> val) @@ res

\* CompositeRecorder.stop_recording: `if recorder_result: results[name] = ...`
Collect(res, r, val) ==
    IF Truthy(val) THEN (TypeName(r) :> val) @@ res ELSE res

\* member method m of recorder r returns val; a composite method in progress
\* goes on to its next member call
Return(m, r, val, log) ==
    /\ m_pc' = "idle"
    /\ ret' = [m |-> m, r |-> r, exc |-> "none", val |-> val]
    /\ calls' = log
    /\ c_i' = IF c_op = "none" THEN c_i ELSE c_i + 1
    /\ results' = IF c_op = "stop" THEN Collect(results, r, val) ELSE results
    /\ UNCHANGED <<c_op, cret, phase>>

\* the caller's next call after composite method op raised: a caller that
\* runs a session gives up, except that after a failed start_recording it
\* still calls stop_recording
AfterRaise(op) ==
    CASE phase = "free" -> phase
      [] op = "start"   -> "failed"
      [] OTHER          -> "off"

\* a faulty composite that catches a member's exception and goes on with
\* the next member (C19 excludes it)
RaiseCaught(m, r, exc, log) ==
    /\ m_pc' = "idle"
    /\ ret' = [m |-> m, r |-> r, exc |-> exc, val |-> EmptyDict]
    /\ calls' = Append(log, <<"raise", r>>)
    /\ c_i' = IF c_op = "none" THEN c_i ELSE c_i + 1
    /\ UNCHANGED <<c_op, results, cret, phase>>

\* a faulty composite whose start_recording catches a member's exception and
\* goes on with the next member (C34 excludes it)
RaiseCaughtInStart(m, r, exc, log) ==
    /\ m_pc' = "idle"
    /\ ret' = [m |-> m, r |-> r, exc |-> exc, val |-> EmptyDict]
    /\ calls' = Append(log, <<"raise", r>>)
    /\ IF c_op = "none"
       THEN UNCHANGED <<c_op, c_i, results, cret, phase>>
       ELSE IF c_op = "start"
       THEN /\ c_i' = c_i + 1
            /\ UNCHANGED <<c_op, results, cret, phase>>
       ELSE /\ c_op' = "none"
            /\ c_i' = 0
            /\ results' = EmptyDict
            /\ cret' = [op |-> c_op, exc |-> exc, val |-> EmptyDict]
            /\ phase' = AfterRaise(c_op)

\* member method m of recorder r raises exc; no composite method catches, so
\* a composite method in progress is left at once and raises exc too
Raise(m, r, exc, log) ==
    /\ m_pc' = "idle"
    /\ ret' = [m |-> m, r |-> r, exc |-> exc, val |-> EmptyDict]
    /\ calls' = Append(log, <<"raise", r>>)
    /\ IF c_op = "none"
       THEN UNCHANGED <<c_op, c_i, results, cret, phase>>
       ELSE /\ c_op' = "none"
            /\ c_i' = 0
            /\ results' = EmptyDict
            /\ cret' = [op |-> c_op, exc |-> exc, val |-> EmptyDict]
            /\ phase' = AfterRaise(c_op)

\* the member method blocks at pc
Block(pc, log) ==
    /\ m_pc' = pc
    /\ calls' = log
    /\ ret' = NoReturn
    /\ UNCHANGED <<c_op, c_i, results, cret, phase>>

(***************************************************************************)
(* VideoRecorder (Recorder/video_recorder.py)                              *)
(***************************************************************************)
\* VideoRecorder.is_recording(): the flag and a live process
VideoIsRecording ==
    /\ v_is_recording
    /\ v_process # None
    /\ proc[v_process] = "running"

\* threading.Thread.is_alive()
ThreadAlive(t) == thread[t] \in {"launch", "wait"}

\* the next capture thread to create
NewThread == Cardinality({t \in Threads : thread[t] # "unborn"}) + 1

\* values self.video_quality may hold: the three presets and other strings
Qualities == {"low", "medium", "high", "ultra", "LOW", ""}

\* _get_video_settings: the quality preset mapping
quality_presets ==
    [q \in {"low", "medium", "high"} |->
        CASE q = "low"    -> <<"-c:v", "libx264", "-preset", "ultrafast", "-crf", "28">>
          [] q = "medium" -> <<"-c:v", "libx264", "-preset", "medium", "-crf", "23">>
          [] OTHER        -> <<"-c:v", "libx264", "-preset", "slow", "-crf", "18">>]

\* a faulty lookup that falls back to the low preset (C11 excludes it)
GetVideoSettingsLowDefault(q) ==
    IF q \in DOMAIN quality_presets THEN quality_presets[q]
    ELSE quality_presets["low"]

\* _get_video_settings: quality_presets.get(q, quality_presets["medium"])
GetVideoSettings(q) ==
    IF q \in DOMAIN quality_presets THEN quality_presets[q]
    ELSE quality_presets["medium"]

\* setup: output_dir.mkdir(parents=True, exist_ok=True)
VideoSetup(log) ==
    /\ Return("setup", Video, EmptyDict, log)
    /\ UNCHANGED videoVars

\* the guard of start_recording: the is_recording test is commented out
VideoStartGuard == FALSE

\* start_recording: setup() (the mkdir changes no state of the recorder), set
\* the flag and start a capture thread
VideoStart(log) ==
    IF VideoStartGuard
    THEN /\ Return("start", Video, EmptyDict, log)
         /\ UNCHANGED videoVars
    ELSE /\ NewThread \in Threads
         /\ v_is_recording' = TRUE
         /\ v_thread' = NewThread
         /\ thread' = [thread EXCEPT ![NewThread] = "launch"]
         /\ Return("start", Video, EmptyDict, Append(log, <<"thread", NewThread>>))
         /\ started_at' = now
         /\ UNCHANGED <<v_process, proc, file, video_quality, v_settings, now>>

\* _recording_thread up to Popen: the command is built from the settings of
\* _get_video_settings, the encoder is spawned and the handle
\* stored, or Popen raises and the flag is cleared
ThreadLaunch(t) ==
    /\ thread[t] = "launch"
    /\ \E ok \in BOOLEAN :
         IF ok
         THEN /\ proc' = [proc EXCEPT ![t] = "running"]
              /\ v_process' = t
              /\ thread' = [thread EXCEPT ![t] = "wait"]
              /\ UNCHANGED v_is_recording
         ELSE /\ v_is_recording' = FALSE
              /\ thread' = [thread EXCEPT ![t] = "done"]
              /\ UNCHANGED <<proc, v_process>>
    /\ v_settings' = GetVideoSettings(video_quality)
    /\ UNCHANGED <<now, started_at>>
    /\ UNCHANGED <<v_thread, file, video_quality>>
    /\ UNCHANGED <<compVars, tmuxVars, project, n_calls, ctlVars>>

\* _recording_thread: self._process.wait() returns, the thread ends
ThreadExit(t) ==
    /\ thread[t] = "wait"
    /\ proc[t] = "exited"
    /\ thread' = [thread EXCEPT ![t] = "done"]
    /\ UNCHANGED <<v_is_recording, v_process, v_thread, proc, file>>
    /\ UNCHANGED <<video_quality, v_settings, now, started_at>>
    /\ UNCHANGED <<compVars, tmuxVars, project, n_calls, ctlVars>>

\* the encoder process exits: after the quit command, or on its own
EncoderExits(t) ==
    /\ proc[t] = "running"
    /\ proc' = [proc EXCEPT ![t] = "exited"]
    /\ UNCHANGED <<v_is_recording, v_process, v_thread, thread, file>>
    /\ UNCHANGED <<video_quality, v_settings, now, started_at>>
    /\ UNCHANGED <<compVars, tmuxVars, project, n_calls, ctlVars>>

\* a running encoder creates the output file, then writes data to it
EncoderWrites(t) ==
    /\ proc[t] = "running"
    /\ file # "nonempty"
    /\ file' = IF file = "missing" THEN "empty" ELSE "nonempty"
    /\ UNCHANGED <<v_is_recording, v_process, v_thread, thread, proc>>
    /\ UNCHANGED <<video_quality, v_settings, now, started_at>>
    /\ UNCHANGED <<compVars, tmuxVars, project, n_calls, ctlVars>>

\* the guard of stop_recording: `if not self.is_recording()`
VideoStopGuard == ~VideoIsRecording

\* a faulty stop_recording that lets the error of the quit write out (C22
\* excludes it)
VideoStopQuitRaises ==
    /\ m_pc = "v_stop_quit"
    /\ IF proc[v_process] = "running"
       THEN Block("v_stop_wait", Append(calls, <<"quit", v_process>>))
       ELSE Raise("stop", Video, "BrokenPipeError", calls)
    /\ UNCHANGED videoVars
    /\ UNCHANGED <<compVars, tmuxVars, project, n_calls>>

\* stop_recording up to the quit command; the guard's poll() found the
\* process of the handle running
VideoStop(log) ==
    IF VideoStopGuard
    THEN /\ v_process' = None
         /\ v_thread' = None
         /\ Return("stop", Video, EmptyDict, log)
         /\ UNCHANGED <<v_is_recording, thread, proc, file, video_quality, v_settings, now, started_at>>
    ELSE /\ v_is_recording' = FALSE
         /\ Block("v_stop_quit", Append(log, <<"poll", v_process>>))
         /\ UNCHANGED <<v_process, v_thread, thread, proc, file>>
         /\ UNCHANGED <<video_quality, v_settings, now, started_at>>

\* stop_recording: write 'q' to the encoder's stdin.  The stream is never
\* closed by this program; when the encoder has exited, the write raises,
\* `except Exception` prints and the wait is skipped
VideoStopQuit ==
    /\ m_pc = "v_stop_quit"
    /\ IF proc[v_process] = "running"
       THEN Block("v_stop_wait", Append(calls, <<"quit", v_process>>))
       ELSE Block("v_stop_finish", calls)
    /\ UNCHANGED videoVars
    /\ UNCHANGED <<compVars, tmuxVars, project, n_calls>>

\* a faulty stop_recording that kills the encoder without waiting for the
\* quit command to take effect (C24 excludes it)
VideoStopWaitKills ==
    /\ m_pc = "v_stop_wait"
    /\ proc' = [proc EXCEPT ![v_process] = "exited"]
    /\ Block("v_stop_finish", Append(calls, <<"kill", v_process>>))
    /\ UNCHANGED <<v_is_recording, v_process, v_thread, thread, file>>
    /\ UNCHANGED <<video_quality, v_settings, now, started_at>>
    /\ UNCHANGED <<compVars, tmuxVars, project, n_calls>>

\* stop_recording: self._process.wait(timeout=10) returns because the
\* encoder has exited, or times out: kill() and wait()
VideoStopWait ==
    /\ m_pc = "v_stop_wait"
    /\ IF proc[v_process] = "exited"
       THEN /\ Block("v_stop_finish", calls)
            /\ UNCHANGED proc
       ELSE /\ proc' = [proc EXCEPT ![v_process] = "exited"]
            /\ Block("v_stop_finish", Append(calls, <<"kill", v_process>>))
    /\ UNCHANGED <<v_is_recording, v_process, v_thread, thread, file>>
    /\ UNCHANGED <<video_quality, v_settings, now, started_at>>
    /\ UNCHANGED <<compVars, tmuxVars, project, n_calls>>

\* the result stop_recording builds from the file on disk
VideoStopResult ==
    IF file = "nonempty" THEN VideoResult ELSE EmptyDict

\* a faulty stop_recording that returns without resetting the handles (C27
\* excludes it)
VideoStopFinishKeepsHandles ==
    /\ m_pc = "v_stop_finish"
    /\ Return("stop", Video, VideoStopResult, calls)
    /\ UNCHANGED videoVars
    /\ UNCHANGED <<compVars, tmuxVars, project, n_calls>>

\* stop_recording: join the thread (5 s at most), inspect the file, reset
\* the handles, return
VideoStopFinish ==
    /\ m_pc = "v_stop_finish"
    /\ v_process' = None
    /\ v_thread' = None
    /\ Return("stop", Video, VideoStopResult, calls)
    /\ UNCHANGED <<v_is_recording, thread, proc, file, video_quality, v_settings, now, started_at>>
    /\ UNCHANGED <<compVars, tmuxVars, project, n_calls>>

\* wait_for_completion: join the capture thread when flag and thread is alive
VideoWait(log) ==
    /\ IF v_is_recording /\ v_thread # None /\ ThreadAlive(v_thread)
       THEN Block("v_wait_join", log)
       ELSE Return("wait", Video, EmptyDict, log)
    /\ UNCHANGED videoVars

\* wait_for_completion: self._thread.join() returns
VideoWaitJoin ==
    /\ m_pc = "v_wait_join"
    /\ thread[v_thread] = "done"
    /\ Return("wait", Video, EmptyDict, calls)
    /\ UNCHANGED videoVars
    /\ UNCHANGED <<compVars, tmuxVars, project, n_calls>>

(***************************************************************************)
(* TmuxAsciinemaRecorder (Recorder/asciinema_recorder.py)                  *)
(***************************************************************************)
\* what `tmux new-session -d -s <name>` may do
SetupOutcomes == {"created", "notfound", "rejected"}

\* setup in create_session's subprocess.run, with the outcome under way
SetupPc(outcome) ==
    CASE outcome = "created"  -> "t_setup_created"
      [] outcome = "notfound" -> "t_setup_notfound"
      [] OTHER                -> "t_setup_rejected"

\* a faulty create_session that wraps every failure into RuntimeError (C23
\* excludes it)
CreateSessionErrorOneType(pc) == "RuntimeError"

\* create_session's except clauses: FileNotFoundError is raised again as
\* FileNotFoundError, CalledProcessError and anything else as RuntimeError
CreateSessionError(pc) ==
    IF pc = "t_setup_notfound" THEN "FileNotFoundError" ELSE "RuntimeError"

\* setup: write the configuration files, then TmuxSessionManager.create_session
\* runs tmux new-session: the session is created, tmux is not found, or the
\* command is rejected; a second session of the same name is rejected
TmuxSetup(log) ==
    /\ \E outcome \in SetupOutcomes :
         /\ session => outcome # "created"
         /\ Block(SetupPc(outcome), log)
    /\ UNCHANGED tmuxVars

\* create_session: subprocess.run returns or raises; nothing catches the
\* exception in TmuxAsciinemaRecorder.setup
TmuxSetupRun ==
    /\ m_pc \in {SetupPc(o) : o \in SetupOutcomes}
    /\ IF m_pc = "t_setup_created"
       THEN /\ session' = TRUE
            /\ Return("setup", Tmux, EmptyDict, calls)
       ELSE /\ UNCHANGED session
            /\ Raise("setup", Tmux, CreateSessionError(m_pc), calls)
    /\ UNCHANGED <<t_is_recording, asciinema>>
    /\ UNCHANGED <<compVars, videoVars, project, n_calls>>

\* a faulty start_recording that never takes the early return (C7 excludes it)
TmuxStartUnguarded == FALSE

\* the guard of start_recording: `if self._is_recording`
TmuxStartGuard == t_is_recording

\* start_recording: set the flag and run asciinema; AsciinemaManager's
\* subprocess.run blocks until the asciinema process ends
TmuxStart(log) ==
    IF TmuxStartGuard
    THEN /\ Return("start", Tmux, EmptyDict, log)
         /\ UNCHANGED tmuxVars
    ELSE /\ t_is_recording' = TRUE
         /\ \E found \in BOOLEAN :
              asciinema' = IF found THEN "running" ELSE "missing"
         /\ Block("t_start_run", Append(log, <<"asciinema", Tmux>>))
         /\ UNCHANGED session

\* AsciinemaManager.start_recording: asciinema ended with status 0, or it
\* failed (not found, non-zero status) and RuntimeError is raised
TmuxStartRun ==
    /\ m_pc = "t_start_run"
    /\ asciinema # "running"
    /\ IF asciinema = "exited"
       THEN Return("start", Tmux, EmptyDict, calls)
       ELSE Raise("start", Tmux, "RuntimeError", calls)
    /\ UNCHANGED <<compVars, tmuxVars, videoVars, project, n_calls>>

\* a faulty stop_recording that never takes the early return (C9 excludes it)
TmuxStopUnguarded == FALSE

\* the guard of stop_recording: `if not self._is_recording`
TmuxStopGuard == ~t_is_recording

\* what _cleanup_tmux may do to a session its existence check found:
\* kill-session ends it, kill-session fails (its status is not checked), a
\* tmux command raises and `except Exception` prints a warning, or the
\* session ended before the existence check of terminate_session
CleanupOutcomes == {"killed", "survived", "raised", "vanished"}

\* terminate_session on a session present: the kill command is issued and
\* True is returned
TerminateLog(log) ==
    log \o << <<"kill-session", Tmux>>, <<"terminated", Tmux>> >>

\* a faulty stop_recording that lets the exception of the cleanup out (C30
\* excludes it)
TmuxStopCleanupRaises(log) ==
    IF TmuxStopGuard
    THEN /\ Return("stop", Tmux, EmptyDict, log)
         /\ UNCHANGED tmuxVars
    ELSE /\ t_is_recording' = FALSE
         /\ UNCHANGED asciinema
         /\ IF session
            THEN \E outcome \in CleanupOutcomes :
                   CASE outcome = "raised" ->
                          /\ UNCHANGED session
                          /\ Raise("stop", Tmux, "Exception", log)
                     [] outcome = "vanished" ->
                          /\ session' = FALSE
                          /\ Return("stop", Tmux, TmuxResult,
                                    Append(log, <<"absent", Tmux>>))
                     [] OTHER ->
                          /\ session' = (outcome = "survived")
                          /\ Return("stop", Tmux, TmuxResult,
                                    TerminateLog(log))
            ELSE /\ UNCHANGED session
                 /\ Return("stop", Tmux, TmuxResult, log)

\* a faulty stop_recording that kills the session without asking whether it
\* exists (C31 excludes it)
TmuxStopKillsBlindly(log) ==
    IF TmuxStopGuard
    THEN /\ Return("stop", Tmux, EmptyDict, log)
         /\ UNCHANGED tmuxVars
    ELSE /\ t_is_recording' = FALSE
         /\ UNCHANGED asciinema
         /\ IF session
            THEN \E outcome \in CleanupOutcomes :
                   CASE outcome = "raised" ->
                          /\ UNCHANGED session
                          /\ Return("stop", Tmux, TmuxResult, log)
                     [] outcome = "vanished" ->
                          /\ session' = FALSE
                          /\ Return("stop", Tmux, TmuxResult,
                                    Append(log, <<"absent", Tmux>>))
                     [] OTHER ->
                          /\ session' = (outcome = "survived")
                          /\ Return("stop", Tmux, TmuxResult,
                                    TerminateLog(log))
            ELSE /\ UNCHANGED session
                 /\ Return("stop", Tmux, TmuxResult,
                           Append(log, <<"kill-session", Tmux>>))

\* stop_recording: clear the flag, _cleanup_tmux (terminate the session when
\* it exists), return the dict
TmuxStop(log) ==
    IF TmuxStopGuard
    THEN /\ Return("stop", Tmux, EmptyDict, log)
         /\ UNCHANGED tmuxVars
    ELSE /\ t_is_recording' = FALSE
         /\ UNCHANGED asciinema
         /\ IF session
            THEN \E outcome \in CleanupOutcomes :
                   CASE outcome = "raised" ->
                          /\ UNCHANGED session
                          /\ Return("stop", Tmux, TmuxResult, log)
                     [] outcome = "vanished" ->
                          /\ session' = FALSE
                          /\ Return("stop", Tmux, TmuxResult,
                                    Append(log, <<"absent", Tmux>>))
                     [] OTHER ->
                          /\ session' = (outcome = "survived")
                          /\ Return("stop", Tmux, TmuxResult,
                                    TerminateLog(log))
            ELSE /\ UNCHANGED session
                 /\ Return("stop", Tmux, TmuxResult, log)

\* wait_for_completion: TmuxSessionManager.wait_for_exit when recording
TmuxWait(log) ==
    /\ IF t_is_recording
       THEN Block("t_wait_poll", log)
       ELSE Return("wait", Tmux, EmptyDict, log)
    /\ UNCHANGED tmuxVars

\* a faulty wait_for_exit that returns after its first poll whatever the
\* poll reported (C32 excludes it)
TmuxWaitPollOnce ==
    /\ m_pc = "t_wait_poll"
    /\ Return("wait", Tmux, EmptyDict, calls)
    /\ UNCHANGED <<compVars, tmuxVars, videoVars, project, n_calls>>

\* wait_for_exit: the poll finds the session gone
TmuxWaitPoll ==
    /\ m_pc = "t_wait_poll"
    /\ ~session
    /\ Return("wait", Tmux, EmptyDict, calls)
    /\ UNCHANGED <<compVars, tmuxVars, videoVars, project, n_calls>>

\* the asciinema process ends: `tmux attach` ended (the user detached or the
\* session ended) and the cast is written, or it ends with a non-zero status
AsciinemaEnds ==
    /\ asciinema = "running"
    /\ \E status \in {"exited", "failed"} : asciinema' = status
    /\ UNCHANGED <<t_is_recording, session>>
    /\ UNCHANGED <<compVars, videoVars, project, n_calls, ctlVars>>

\* the user leaves the multiplexer session, which ends it
SessionEnds ==
    /\ session
    /\ session' = FALSE
    /\ UNCHANGED <<t_is_recording, asciinema>>
    /\ UNCHANGED <<compVars, videoVars, project, n_calls, ctlVars>>

(***************************************************************************)
(* Any other AbstractRecorder subclass (Recorder/ab_recorder.py): each     *)
(* abstract method returns or raises                                       *)
(***************************************************************************)
FakeSetup(log) ==
    \E ok \in BOOLEAN :
        IF ok THEN Return("setup", Fake, EmptyDict, log)
              ELSE Raise("setup", Fake, "RuntimeError", log)

FakeStart(log) ==
    \E ok \in BOOLEAN :
        IF ok THEN Return("start", Fake, EmptyDict, log)
              ELSE Raise("start", Fake, "RuntimeError", log)

FakeStop(log) ==
    \E outcome \in {"result", "empty", "raise"} :
        CASE outcome = "result" -> Return("stop", Fake, FakeResult, log)
          [] outcome = "empty"  -> Return("stop", Fake, EmptyDict, log)
          [] OTHER              -> Raise("stop", Fake, "RuntimeError", log)

FakeWait(log) == Return("wait", Fake, EmptyDict, log)

(***************************************************************************)
(* Method dispatch                                                         *)
(***************************************************************************)
\* recorder.<m>() on member r, logged after `log`
Invoke(m, r, log) ==
    LET l == Append(log, <<m, r>>) IN
    CASE r = Tmux ->
           /\ CASE m = "setup" -> TmuxSetup(l)
                [] m = "start" -> TmuxStart(l)
                [] m = "stop"  -> TmuxStop(l)
                [] OTHER       -> TmuxWait(l)
           /\ UNCHANGED videoVars
      [] r = Video ->
           /\ CASE m = "setup" -> VideoSetup(l)
                [] m = "start" -> VideoStart(l)
                [] m = "stop"  -> VideoStop(l)
                [] OTHER       -> VideoWait(l)
           /\ UNCHANGED tmuxVars
      [] OTHER ->
           /\ CASE m = "setup" -> FakeSetup(l)
                [] m = "start" -> FakeStart(l)
                [] m = "stop"  -> FakeStop(l)
                [] OTHER       -> FakeWait(l)
           /\ UNCHANGED <<tmuxVars, videoVars>>

(***************************************************************************)
(* CompositeRecorder (Recorder/composite_recorder.py)                      *)
(***************************************************************************)
\* the caller's run: construct and register the recorders ("fresh"), then
\* setup, start_recording, wait_for_completion, stop_recording; the
\* stop_recording after a failed start_recording ends it "recovered"
NextPhase(op) ==
    CASE Free             -> phase
      [] op = "setup"     -> "setup"
      [] op = "start"     -> "started"
      [] op = "wait"      -> "waited"
      [] phase = "failed" -> "recovered"
      [] OTHER            -> "stopped"

\* a faulty add_recorder that appends without looking for the recorder in the
\* collection (C36 excludes it)
AddRecorderUnchecked(r) ==
    /\ Call("fresh")
    /\ recorders' = Append(recorders, r)
    /\ tmux_recorder' = IF r = Tmux THEN r ELSE tmux_recorder
    /\ video_recorder' = IF r = Video THEN r ELSE video_recorder
    /\ calls' = << <<"add", r>> >>
    /\ UNCHANGED phase
    /\ cret' = NoCReturn
    /\ ret' = NoReturn
    /\ UNCHANGED <<c_is_recording, tmuxVars, videoVars, project>>
    /\ UNCHANGED <<c_op, c_i, results, m_pc>>

\* add_recorder
AddRecorder(r) ==
    /\ Call("fresh")
    /\ IF r \notin Range(recorders)
       THEN /\ recorders' = Append(recorders, r)
            /\ tmux_recorder' = IF r = Tmux THEN r ELSE tmux_recorder
            /\ video_recorder' = IF r = Video THEN r ELSE video_recorder
       ELSE UNCHANGED <<recorders, tmux_recorder, video_recorder>>
    /\ calls' = << <<"add", r>> >>
    /\ UNCHANGED phase
    /\ cret' = NoCReturn
    /\ ret' = NoReturn
    /\ UNCHANGED <<c_is_recording, tmuxVars, videoVars, project>>
    /\ UNCHANGED <<c_op, c_i, results, m_pc>>

\* remove_recorder
RemoveRecorder(r) ==
    /\ Call("fresh")
    /\ IF r \in Range(recorders)
       THEN /\ recorders' = Remove(recorders, r)
            /\ tmux_recorder' = IF tmux_recorder = r THEN None ELSE tmux_recorder
            /\ video_recorder' =
                 IF tmux_recorder # r /\ video_recorder = r THEN None ELSE video_recorder
       ELSE UNCHANGED <<recorders, tmux_recorder, video_recorder>>
    /\ calls' = << <<"remove", r>> >>
    /\ UNCHANGED phase
    /\ cret' = NoCReturn
    /\ ret' = NoReturn
    /\ UNCHANGED <<c_is_recording, tmuxVars, videoVars, project>>
    /\ UNCHANGED <<c_op, c_i, results, m_pc>>

\* `recorder.is_recording` as the composite reads it, without calling it:
\* VideoRecorder defines is_recording as a plain method, so the attribute is a
\* bound method and always true in a condition
VideoIsRecordingAttr == TRUE

\* the members the after-hook loop of start_recording starts
Others ==
    SelectSeq(recorders, LAMBDA r : r # video_recorder /\ r # tmux_recorder)

\* <<m, s[1]>>, <<m, s[2]>>, ...
Each(m, s) == [k \in 1..Len(s) |-> <<m, s[k]>>]

\* a faulty start_recording whose after-hook loop starts every member, the
\* tracked ones a second time (C37 excludes it)
StartCallsTrackedTwice ==
    (IF video_recorder # None
     THEN << <<"start", video_recorder>>, <<"sleep", video_recorder>> >>
     ELSE <<>>)
    \o (IF tmux_recorder # None THEN << <<"start", tmux_recorder>> >> ELSE <<>>)
    \o Each("start", recorders)

\* start_recording: pre-hook (video, then sleep and check), on-tmux, after-hook
StartCalls ==
    (IF video_recorder # None
     THEN << <<"start", video_recorder>>, <<"sleep", video_recorder>> >>
     ELSE <<>>)
    \o (IF tmux_recorder # None THEN << <<"start", tmux_recorder>> >> ELSE <<>>)
    \o Each("start", Others)

\* a faulty wait_for_completion that stops the video recorder also when no
\* tmux recorder is tracked (C20 excludes it)
WaitCallsStopVideo ==
    (IF tmux_recorder # None
     THEN << <<"wait", tmux_recorder>> >>
     ELSE Each("wait", recorders))
    \o (IF video_recorder # None
        THEN << <<"stop_if_recording", video_recorder>> >>
        ELSE <<>>)

\* wait_for_completion: the tmux recorder and then the video recorder's stop,
\* or every member
WaitCalls ==
    IF tmux_recorder # None
    THEN << <<"wait", tmux_recorder>> >>
         \o (IF video_recorder # None
             THEN << <<"stop_if_recording", video_recorder>> >>
             ELSE <<>>)
    ELSE Each("wait", recorders)

\* a faulty composite whose stop_recording goes through the members in
\* reverse order (C17 excludes it)
MemberCallsStopReversed(op) ==
    CASE op = "setup" -> Each("setup", recorders)
      [] op = "start" -> StartCalls
      [] op = "stop"  -> [k \in 1..Len(recorders) |->
                             <<"stop", recorders[Len(recorders) + 1 - k]>>]
      [] OTHER        -> WaitCalls

\* the member calls of a composite method, in the order the method makes them
MemberCalls(op) ==
    CASE op = "setup" -> Each("setup", recorders)
      [] op = "start" -> StartCalls
      [] op = "stop"  -> Each("stop", recorders)
      [] OTHER        -> WaitCalls

\* the composite method returns val to the caller
CompositeReturn(op, val) ==
    /\ c_op' = "none"
    /\ c_i' = 0
    /\ results' = EmptyDict
    /\ cret' = [op |-> op, exc |-> "none", val |-> val]
    /\ phase' = NextPhase(op)

\* setup is called
CompositeSetup ==
    /\ Call("fresh")
    /\ c_op' = "setup"
    /\ c_i' = 1
    /\ calls' = << <<"setup", Composite>> >>
    /\ cret' = NoCReturn
    /\ ret' = NoReturn
    /\ UNCHANGED <<results, m_pc, phase>>
    /\ UNCHANGED <<compVars, tmuxVars, videoVars, project>>

\* a faulty start_recording that never takes the early return (C8 excludes it)
CompositeStartUnguarded == FALSE

\* the guard of start_recording: `if self._is_recording`
CompositeStartGuard == c_is_recording

\* start_recording is called
CompositeStart ==
    /\ Call("setup")
    /\ Video \in Range(recorders) => NewThread \in Threads
    /\ calls' = << <<"start", Composite>> >>
    /\ IF CompositeStartGuard
       THEN /\ CompositeReturn("start", EmptyDict)
            /\ UNCHANGED c_is_recording
       ELSE /\ c_is_recording' = TRUE
            /\ c_op' = "start"
            /\ c_i' = 1
            /\ cret' = NoCReturn
            /\ UNCHANGED <<results, phase>>
    /\ ret' = NoReturn
    /\ UNCHANGED m_pc
    /\ UNCHANGED <<recorders, tmux_recorder, video_recorder>>
    /\ UNCHANGED <<tmuxVars, videoVars, project>>

\* the guard of stop_recording: `if not self._is_recording`
CompositeStopGuard == ~c_is_recording

\* stop_recording is called
CompositeStop ==
    /\ \E at \in {"waited", "failed"} : Call(at)
    /\ calls' = << <<"stop", Composite>> >>
    /\ IF CompositeStopGuard
       THEN /\ CompositeReturn("stop", EmptyDict)
            /\ UNCHANGED c_is_recording
       ELSE /\ c_is_recording' = FALSE
            /\ results' = EmptyDict
            /\ c_op' = "stop"
            /\ c_i' = 1
            /\ cret' = NoCReturn
            /\ UNCHANGED phase
    /\ ret' = NoReturn
    /\ UNCHANGED m_pc
    /\ UNCHANGED <<recorders, tmux_recorder, video_recorder>>
    /\ UNCHANGED <<tmuxVars, videoVars, project>>

\* wait_for_completion is called
CompositeWait ==
    /\ Call("started")
    /\ c_op' = "wait"
    /\ c_i' = 1
    /\ calls' = << <<"wait", Composite>> >>
    /\ cret' = NoCReturn
    /\ ret' = NoReturn
    /\ UNCHANGED <<results, m_pc, phase>>
    /\ UNCHANGED <<compVars, tmuxVars, videoVars, project>>

\* the composite method in progress makes its next member call, or returns
CompositeStep ==
    /\ c_op # "none"
    /\ m_pc = "idle"
    /\ LET p == MemberCalls(c_op) IN
       IF c_i > Len(p)
       THEN /\ CompositeReturn(c_op, IF c_op = "stop" THEN results ELSE EmptyDict)
            /\ ret' = NoReturn
            /\ UNCHANGED <<m_pc, calls, tmuxVars, videoVars>>
       ELSE LET m == p[c_i][1]
                r == p[c_i][2]
            IN CASE m = "sleep" ->
                      \* time.sleep(1); if not r.is_recording: print a warning
                      /\ c_i' = c_i + 1
                      /\ calls' = IF VideoIsRecordingAttr THEN calls
                                  ELSE Append(calls, <<"warn", r>>)
                      /\ UNCHANGED <<c_op, results, cret, m_pc, ret, phase>>
                      /\ UNCHANGED <<tmuxVars, videoVars>>
                 [] m = "stop_if_recording" ->
                      \* if r.is_recording: r.stop_recording()
                      IF VideoIsRecordingAttr
                      THEN Invoke("stop", r, calls)
                      ELSE /\ c_i' = c_i + 1
                           /\ UNCHANGED <<c_op, results, cret, m_pc, ret, phase, calls>>
                           /\ UNCHANGED <<tmuxVars, videoVars>>
                 [] OTHER -> Invoke(m, r, calls)
    /\ UNCHANGED <<compVars, project, n_calls>>

(***************************************************************************)
(* A recorder used on its own: the caller calls its methods directly       *)
(***************************************************************************)
Methods == {"setup", "start", "stop", "wait"}

VideoCall(m) ==
    /\ Call("free")
    /\ Invoke(m, Video, <<>>)
    /\ UNCHANGED <<compVars, project>>

TmuxCall(m) ==
    /\ Call("free")
    /\ Invoke(m, Tmux, <<>>)
    /\ UNCHANGED <<compVars, project>>

(***************************************************************************)
(* Specifications                                                          *)
(***************************************************************************)
\* after construction; the constructor takes any list of recorders and
\* leaves the two tracked references unset
Construct ==
    /\ recorders \in Lists(Recorder)
    /\ c_is_recording = FALSE
    /\ tmux_recorder = None
    /\ video_recorder = None
    /\ t_is_recording = FALSE
    /\ session = FALSE
    /\ asciinema = "none"
    /\ v_is_recording = FALSE
    /\ v_process = None
    /\ v_thread = None
    /\ thread = [t \in Threads |-> "unborn"]
    /\ proc = [t \in Threads |-> "none"]
    /\ file = "missing"
    /\ v_settings = <<>>
    /\ now = 0
    /\ started_at = 0
    /\ project \in Projects
    /\ c_op = "none"
    /\ c_i = 0
    /\ results = EmptyDict
    /\ cret = NoCReturn
    /\ m_pc = "idle"
    /\ ret = NoReturn
    /\ calls = <<>>
    /\ n_calls = 0

\* a caller that calls the composite's methods in any order;
\* VideoRecorder.__init__ sets video_quality to 'low'
Init == Construct /\ phase = "free" /\ video_quality = "low"

\* the capture threads, the encoder processes and the user
Environment ==
    \/ \E t \in Threads : ThreadLaunch(t)
    \/ \E t \in Threads : ThreadExit(t)
    \/ \E t \in Threads : EncoderExits(t)
    \/ \E t \in Threads : EncoderWrites(t)
    \/ AsciinemaEnds
    \/ SessionEnds

\* a member method goes on from its blocking point
MemberStep ==
    \/ VideoStopQuit
    \/ VideoStopWait
    \/ VideoStopFinish
    \/ VideoWaitJoin
    \/ TmuxSetupRun
    \/ TmuxStartRun
    \/ TmuxWaitPoll

\* the recorders behind a CompositeRecorder
Next ==
    \/ \E r \in Recorder : AddRecorder(r)
    \/ \E r \in Recorder : RemoveRecorder(r)
    \/ CompositeSetup
    \/ CompositeStart
    \/ CompositeStop
    \/ CompositeWait
    \/ CompositeStep
    \/ MemberStep
    \/ Environment

Spec == Init /\ [][Next]_vars

\* a caller that registers the recorders and then calls setup,
\* start_recording, wait_for_completion and stop_recording, once each
InitSession == Construct /\ phase = "fresh" /\ video_quality = "low"

SpecSession == InitSession /\ [][Next]_vars

\* a CompositeRecorder constructed with no recorders
InitEmpty == Init /\ recorders = <<>>

SpecEmpty == InitEmpty /\ [][Next]_vars

\* a VideoRecorder on its own
InitVideo == Init /\ recorders = <<>>

NextVideo ==
    \/ \E m \in Methods : VideoCall(m)
    \/ VideoStopQuit
    \/ VideoStopWait
    \/ VideoStopFinish
    \/ VideoWaitJoin
    \/ \E t \in Threads : ThreadLaunch(t)
    \/ \E t \in Threads : ThreadExit(t)
    \/ \E t \in Threads : EncoderExits(t)
    \/ \E t \in Threads : EncoderWrites(t)

SpecVideo == InitVideo /\ [][NextVideo]_vars

\* how much time passes at once: half a day and some, or a day
Durations == {45296, 86400}

\* time passes between two calls (the steps of one call take seconds)
Tick(d) ==
    /\ m_pc = "idle"
    /\ now + d <= MaxClock
    /\ now' = now + d
    /\ UNCHANGED <<v_is_recording, v_process, v_thread, thread, proc, file>>
    /\ UNCHANGED <<video_quality, v_settings, started_at>>
    /\ UNCHANGED <<compVars, tmuxVars, project, n_calls, ctlVars>>

\* a VideoRecorder on its own, with time passing
NextTime ==
    \/ NextVideo
    \/ \E d \in Durations : Tick(d)

SpecTime == InitVideo /\ [][NextTime]_vars

\* a VideoRecorder on its own whose video_quality holds any string (the
\* attribute is public, and the constructor argument in video_record.py)
InitQuality ==
    /\ Construct
    /\ phase = "free"
    /\ recorders = <<>>
    /\ video_quality \in Qualities

SpecQuality == InitQuality /\ [][NextVideo]_vars

\* a TmuxAsciinemaRecorder on its own
NextTmux ==
    \/ \E m \in Methods : TmuxCall(m)
    \/ TmuxSetupRun
    \/ TmuxStartRun
    \/ TmuxWaitPoll
    \/ AsciinemaEnds
    \/ SessionEnds

SpecTmux == InitVideo /\ [][NextTmux]_vars

\* the same, with the polling loop of wait_for_exit scheduled: the control
\* thread sleeps one second between polls and polls again
SpecTmuxFair == SpecTmux /\ WF_vars(TmuxWaitPoll)

(***************************************************************************)
(* Properties                                                              *)
(***************************************************************************)
\* this step is the control thread calling method m of member r: directly
\* by the caller, or from the composite method in progress
Invoked(m, r) ==
    /\ m_pc = "idle"
    /\ IF c_op = "none"
       THEN /\ n_calls' # n_calls
            /\ calls'[1] = <<m, r>>
       ELSE /\ Len(calls') > Len(calls)
            /\ calls'[Len(calls) + 1] = <<m, r>>

\* this step is the caller calling method op of the composite
CompositeCalled(op) ==
    /\ Idle
    /\ n_calls' # n_calls
    /\ calls'[1] = <<op, Composite>>

\* the log of a composite start_recording, running or just ended
StartLog == calls # <<>> /\ calls[1] = <<"start", Composite>>

\* C1: whenever the collection holds both a screen and a terminal recorder,
\* however they were registered, start_recording calls the screen recorder's
\* start_recording before the terminal recorder's: once the terminal's start
\* is in the log of a composite start, the screen's start precedes it
C1_VideoStartsBeforeTmux ==
    (/\ StartLog
     /\ {Tmux, Video} \subseteq Range(recorders)
     /\ <<"start", Tmux>> \in Range(calls))
    => /\ <<"start", Video>> \in Range(calls)
       /\ IndexOf(calls, <<"start", Video>>) < IndexOf(calls, <<"start", Tmux>>)

\* C2: a composite stop_recording over three members, the second of which
\* raises in stop_recording, does not raise, has called the third member's
\* stop_recording, and returns the entries of the first and third member only
C2_StopSurvivesMemberFailure ==
    (/\ Idle
     /\ calls # <<>>
     /\ calls[1] = <<"stop", Composite>>
     /\ Len(recorders) = 3
     /\ <<"raise", recorders[2]>> \in Range(calls))
    => /\ cret.op = "stop"
       /\ cret.exc = "none"
       /\ <<"stop", recorders[3]>> \in Range(calls)
       /\ DOMAIN cret.val \subseteq {TypeName(recorders[1]), TypeName(recorders[3])}

\* C3: for a composite of one terminal and one screen recorder whose encoder
\* wrote a non-empty video file, the run setup, start_recording,
\* wait_for_completion, stop_recording returns exactly two entries, the
\* screen recorder's holding the video path.  (The process handle is None
\* when no encoder was spawned after the screen recorder's last
\* stop_recording returned: the file was then non-empty at that return.)
C3_SessionReturnsBothEntries ==
    (/\ phase = "stopped"
     /\ Range(recorders) = {Tmux, Video}
     /\ v_process = None
     /\ file = "nonempty")
    => /\ DOMAIN cret.val = {"TmuxAsciinemaRecorder", "VideoRecorder"}
       /\ cret.val["VideoRecorder"].outputs.video = "video_file"

\* this step is wait_for_completion deciding, after the terminal recorder's
\* wait_for_completion returned, whether to stop the screen recorder
WaitDecides ==
    /\ c_op = "wait"
    /\ m_pc = "idle"
    /\ tmux_recorder # None
    /\ video_recorder # None
    /\ c_i = 2
    /\ (c_i' # c_i \/ m_pc' # m_pc)

\* C4: after the terminal recorder's wait_for_completion returned, the
\* composite's wait_for_completion calls the screen recorder's stop_recording
\* if and only if the screen recorder is recording at that moment
C4_WaitStopsVideoIffRecording ==
    [][WaitDecides => (Invoked("stop", Video) <=> VideoIsRecording)]_vars

\* C5: for a composite whose only member is a terminal recorder, the run
\* setup, start_recording, wait_for_completion, stop_recording returns one
\* entry, keyed TmuxAsciinemaRecorder, with the outputs asciinema, zsh_history
\* and tmux_logs and the project name of the session
C5_TmuxOnlySessionResult ==
    (phase = "stopped" /\ recorders = <<Tmux>>)
    => /\ cret.op = "stop"
       /\ cret.exc = "none"
       /\ DOMAIN cret.val = {"TmuxAsciinemaRecorder"}
       /\ DOMAIN cret.val["TmuxAsciinemaRecorder"].outputs
            = {"asciinema", "zsh_history", "tmux_logs"}
       /\ cret.val["TmuxAsciinemaRecorder"].metadata.project_name = project

\* C5 witness: such a run has ended and returned the terminal entry
C5_Witness ==
    /\ phase = "stopped"
    /\ recorders = <<Tmux>>
    /\ calls = << <<"stop", Composite>>, <<"stop", Tmux>> >>
    /\ "TmuxAsciinemaRecorder" \in DOMAIN cret.val

\* C6: start_recording on a VideoRecorder whose previous start_recording has
\* not been followed by a stop_recording (the thread handle is still set)
\* creates no capture thread
C6_VideoStartIdempotent ==
    [][(Invoked("start", Video) /\ v_thread # None) => thread' = thread]_vars

\* C7: start_recording on a TmuxAsciinemaRecorder that is recording returns
\* at once, runs no asciinema process and changes nothing of the recorder
C7_TmuxStartIdempotent ==
    [][(Invoked("start", Tmux) /\ t_is_recording)
       => /\ m_pc' = "idle"
          /\ <<"asciinema", Tmux>> \notin Range(calls')
          /\ ret'.exc = "none"
          /\ UNCHANGED tmuxVars]_vars

\* C7 witness: a start_recording call on a recording recorder has returned
\* without running asciinema
C7_Witness ==
    /\ Idle
    /\ t_is_recording
    /\ calls = << <<"start", Tmux>> >>
    /\ ret = [m |-> "start", r |-> Tmux, exc |-> "none", val |-> EmptyDict]

\* C8: start_recording on a composite that is recording returns at once,
\* calls no member and changes nothing of the composite and its members
C8_CompositeStartGuarded ==
    [][(CompositeCalled("start") /\ c_is_recording)
       => /\ c_op' = "none"
          /\ calls' = << <<"start", Composite>> >>
          /\ cret'.exc = "none"
          /\ UNCHANGED <<compVars, tmuxVars, videoVars>>]_vars

\* C8 witness: a start_recording call on a recording composite with members
\* has returned with no member call in its log
C8_Witness ==
    /\ Idle
    /\ c_is_recording
    /\ recorders # <<>>
    /\ cret = [op |-> "start", exc |-> "none", val |-> EmptyDict]
    /\ calls = << <<"start", Composite>> >>

\* C9: stop_recording on a recorder that is not recording returns the empty
\* result and does nothing else: the terminal recorder terminates no session,
\* the screen recorder sends no quit or kill, the composite calls no member,
\* and the is_recording flag keeps its value
C9_StopWhenIdleIsNoop ==
    [][/\ (Invoked("stop", Tmux) /\ ~t_is_recording)
          => /\ m_pc' = "idle"
             /\ ret' = [m |-> "stop", r |-> Tmux, exc |-> "none", val |-> EmptyDict]
             /\ <<"kill-session", Tmux>> \notin Range(calls')
             /\ UNCHANGED tmuxVars
       /\ (Invoked("stop", Video) /\ ~VideoIsRecording)
          => /\ m_pc' = "idle"
             /\ ret' = [m |-> "stop", r |-> Video, exc |-> "none", val |-> EmptyDict]
             /\ \A t \in Threads :
                  <<"quit", t>> \notin Range(calls') /\ <<"kill", t>> \notin Range(calls')
             /\ UNCHANGED <<v_is_recording, proc, thread, file>>
       /\ (CompositeCalled("stop") /\ ~c_is_recording)
          => /\ c_op' = "none"
             /\ cret' = [op |-> "stop", exc |-> "none", val |-> EmptyDict]
             /\ calls' = << <<"stop", Composite>> >>
             /\ UNCHANGED <<compVars, tmuxVars, videoVars>>]_vars

\* C9 witness: a recording composite has stopped a terminal and a screen
\* recorder that were not recording; both returned the empty result and the
\* log shows neither a kill-session nor a quit
C9_Witness ==
    /\ Idle
    /\ calls = << <<"stop", Composite>>, <<"stop", Tmux>>, <<"stop", Video>> >>
    /\ cret = [op |-> "stop", exc |-> "none", val |-> EmptyDict]

\* this step is VideoRecorder.stop_recording returning
VideoStopReturns ==
    /\ ret' # ret
    /\ ret'.m = "stop"
    /\ ret'.r = Video
    /\ ret'.exc = "none"

\* C10: VideoRecorder.stop_recording returns the empty result if and only if
\* the video file is missing or has zero size when it returns
C10_VideoResultEmptyIffNoFile ==
    [][VideoStopReturns
       => (ret'.val = EmptyDict <=> file' \in {"missing", "empty"})]_vars

\* the -preset and -crf values of an encoder settings list
Preset(settings) == settings[4]
Crf(settings) == settings[6]

\* C11: the quality preset mapping is total: low gives (ultrafast, 28),
\* medium (medium, 23), high (slow, 18), and every other quality string
\* gives exactly the medium parameters
C11_QualityPresetTotal ==
    v_settings # <<>> =>
        /\ video_quality = "low"
             => Preset(v_settings) = "ultrafast" /\ Crf(v_settings) = "28"
        /\ video_quality = "medium"
             => Preset(v_settings) = "medium" /\ Crf(v_settings) = "23"
        /\ video_quality = "high"
             => Preset(v_settings) = "slow" /\ Crf(v_settings) = "18"
        /\ video_quality \notin {"low", "medium", "high"}
             => v_settings = <<"-c:v", "libx264", "-preset", "medium", "-crf", "23">>

\* C11 witness: a capture thread has built its command for a quality string
\* that is no preset, with the medium parameters
C11_Witness ==
    /\ video_quality = "ultra"
    /\ \E t \in Threads : thread[t] = "wait"
    /\ v_settings # <<>>
    /\ Preset(v_settings) = "medium"
    /\ Crf(v_settings) = "23"

\* C12: a recorder's is_recording flag is true only if its process was
\* successfully created and no stop has completed since: the terminal
\* recorder's flag is not true once start_recording has ended because
\* asciinema could not be launched, and the screen recorder's flag is true
\* only while a capture thread is about to spawn the encoder or an encoder is
\* running
C12_FlagImpliesProcess ==
    /\ (t_is_recording /\ m_pc # "t_start_run") => asciinema # "missing"
    /\ v_is_recording => \E t \in Threads : thread[t] = "launch" \/ proc[t] = "running"

\* C13: in a composite that tracks a screen and a terminal recorder, a
\* capture thread has spawned the encoder process by the time start_recording
\* launches asciinema, whatever the scheduling of the capture thread
C13_EncoderSpawnedBeforeAsciinema ==
    (/\ StartLog
     /\ video_recorder = Video
     /\ tmux_recorder = Tmux
     /\ <<"asciinema", Tmux>> \in Range(calls))
    => \E t \in Threads : proc[t] # "none"

\* C14: for a started composite with a terminal and a screen recorder, once
\* wait_for_completion has returned no encoder process is running, at that
\* moment or later, whatever the interleaving of the capture threads
C14_NoEncoderAfterWait ==
    (/\ phase = "waited"
     /\ Range(recorders) = {Tmux, Video})
    => \A t \in Threads : proc[t] # "running"

\* this step is TmuxAsciinemaRecorder.start_recording returning after it
\* launched asciinema
TmuxStartReturns ==
    /\ m_pc = "t_start_run"
    /\ m_pc' = "idle"
    /\ ret'.exc = "none"

\* C15: TmuxAsciinemaRecorder.start_recording returns as soon as asciinema
\* has been launched: when it returns the asciinema process is still running,
\* it has not waited for the process or the session to end
C15_StartReturnsAfterLaunch ==
    [][TmuxStartReturns => asciinema' = "running"]_vars

\* C16: VideoRecorder.wait_for_completion is a no-op: in every state of the
\* recorder, also while the encoder is running, it returns at once, waits for
\* no thread and no process and changes nothing of the recorder
C16_VideoWaitIsNoop ==
    [][Invoked("wait", Video)
       => /\ m_pc' = "idle"
          /\ ret' = [m |-> "wait", r |-> Video, exc |-> "none", val |-> EmptyDict]
          /\ UNCHANGED videoVars]_vars

\* the calls of member method m in a log, in order
MemberEvents(m, log) ==
    SelectSeq(log, LAMBDA e : e[1] = m /\ e[2] \in Recorder)

\* this step is composite method op returning to the caller without raising
CompositeReturns(op) ==
    /\ c_op = op
    /\ c_op' = "none"
    /\ cret'.exc = "none"

\* C17: stop_recording on a recording composite clears the flag and, when no
\* member's stop fails, has called stop_recording on every member exactly
\* once, in registration order
C17_StopInRegistrationOrder ==
    [][/\ (CompositeCalled("stop") /\ c_is_recording)
          => /\ ~c_is_recording'
             /\ c_op' = "stop"
       /\ CompositeReturns("stop")
          => /\ MemberEvents("stop", calls') = Each("stop", recorders)
             /\ ~c_is_recording']_vars

\* C17 witness: a stop_recording over three members has returned after
\* stopping them in registration order
C17_Witness ==
    /\ Idle
    /\ cret.op = "stop"
    /\ cret.exc = "none"
    /\ ~c_is_recording
    /\ recorders = <<Fake, Video, Tmux>>
    /\ calls = << <<"stop", Composite>>, <<"stop", Fake>>, <<"stop", Video>>,
                  <<"stop", Tmux>> >>

\* this step is a member's stop_recording returning to the composite's
\* stop_recording
MemberStopReturns ==
    /\ c_op = "stop"
    /\ c_i' = c_i + 1

\* C18: the mapping stop_recording returns has as keys exactly the variant
\* names of the members whose stop_recording returned a non-empty result:
\* the mapping starts empty, a member's non-empty result is entered under its
\* variant name, an empty result adds no key, and the mapping is returned as
\* collected
C18_KeysAreNonEmptyResults ==
    [][/\ (CompositeCalled("stop") /\ c_op' = "stop") => results' = EmptyDict
       /\ MemberStopReturns
          => /\ DOMAIN results' =
                  DOMAIN results \cup
                  (IF ret'.val # EmptyDict THEN {TypeName(ret'.r)} ELSE {})
             /\ \A k \in DOMAIN results' :
                  results'[k] = IF k = TypeName(ret'.r) /\ ret'.val # EmptyDict
                                THEN ret'.val ELSE results[k]
       /\ CompositeReturns("stop") => cret'.val = results]_vars

\* C18 witness: of three stopped members the screen recorder returned the
\* empty result and has no entry, the two others have theirs
C18_Witness ==
    /\ Idle
    /\ cret.op = "stop"
    /\ cret.exc = "none"
    /\ calls = << <<"stop", Composite>>, <<"stop", Video>>, <<"stop", Tmux>>,
                  <<"stop", Fake>> >>
    /\ DOMAIN cret.val = {"TmuxAsciinemaRecorder", "FakeRecorder"}

\* the log of a composite setup, running or just ended
SetupLog == calls # <<>> /\ calls[1] = <<"setup", Composite>>

\* C19: setup calls setup on the members in registration order; when a
\* member's setup raises, the exception reaches the caller, no later member's
\* setup is called and nothing is torn down: the log of the call is the
\* setups up to the failing member and the raise, with no stop and no
\* kill-session
C19_SetupAbortsOnFirstFailure ==
    (SetupLog /\ Idle)
    => IF cret.exc = "none"
       THEN Tail(calls) = Each("setup", recorders)
       ELSE \E k \in 1..Len(recorders) :
              /\ Tail(calls) = Each("setup", SubSeq(recorders, 1, k))
                                 \o << <<"raise", recorders[k]>> >>
              /\ cret = [op |-> "setup", exc |-> ret.exc, val |-> EmptyDict]
              /\ ret.r = recorders[k]

\* C19 witness: the second member's setup raised after the terminal
\* recorder's setup had created the session; the third member was not set
\* up and the session is still there
C19_Witness ==
    /\ Idle
    /\ recorders = <<Tmux, Fake, Video>>
    /\ calls = << <<"setup", Composite>>, <<"setup", Tmux>>, <<"setup", Fake>>,
                  <<"raise", Fake>> >>
    /\ cret = [op |-> "setup", exc |-> "RuntimeError", val |-> EmptyDict]
    /\ session

\* the log of a composite wait_for_completion, running or just ended
WaitLog == calls # <<>> /\ calls[1] = <<"wait", Composite>>

TmuxSetupEnds ==
    /\ m_pc \in {SetupPc(o) : o \in SetupOutcomes}
    /\ m_pc' = "idle"

\* C21: setup is idempotent: a setup called while the session created by an
\* earlier setup exists succeeds as the first did (unless tmux is no longer
\* found) and the one session is still there
C21_SetupIdempotent ==
    [][(TmuxSetupEnds /\ session /\ ret'.exc # "FileNotFoundError")
       => (ret'.exc = "none" /\ session')]_vars

\* this step is VideoRecorder.stop_recording ending: at its guard, or after
\* the join and the inspection of the file
VideoStopEnds ==
    \/ Invoked("stop", Video) /\ m_pc' = "idle"
    \/ m_pc \in {"v_stop_quit", "v_stop_wait", "v_stop_finish"} /\ m_pc' = "idle"

\* C22: however stop_recording interleaves with the encoder exiting on its
\* own (before the guard's poll, between the poll and the quit write, during
\* the bounded wait), stop_recording returns a result, does not raise, and
\* leaves the process and thread handles reset
C22_StopSurvivesEncoderExit ==
    [][VideoStopEnds
       => /\ ret'.m = "stop"
          /\ ret'.r = Video
          /\ ret'.exc = "none"
          /\ v_process' = None
          /\ v_thread' = None]_vars

\* C22 witness: the encoder exited between the guard's poll and the quit
\* write: the stop passed the guard, sent no quit, and returned with the
\* handles reset
C22_Witness ==
    /\ Idle
    /\ calls = << <<"stop", Video>>, <<"poll", 1>> >>
    /\ ret.m = "stop"
    /\ ret.exc = "none"
    /\ proc[1] = "exited"
    /\ v_process = None
    /\ v_thread = None

\* C23: create_session returns normally only when the session was created;
\* a missing tmux binary raises FileNotFoundError, a rejected request raises
\* RuntimeError, and the exception leaves TmuxAsciinemaRecorder.setup and
\* CompositeRecorder.setup unchanged
C23_CreateSessionErrors ==
    [][TmuxSetupEnds
       => /\ ret'.m = "setup" /\ ret'.r = Tmux
          /\ (ret'.exc = "none") = (m_pc = "t_setup_created")
          /\ ret'.exc = "none" => session'
          /\ m_pc = "t_setup_notfound" => ret'.exc = "FileNotFoundError"
          /\ m_pc = "t_setup_rejected" => ret'.exc = "RuntimeError"
          /\ (c_op = "setup" /\ ret'.exc # "none")
                => (c_op' = "none" /\ cret'.op = "setup" /\ cret'.exc = ret'.exc)]_vars

\* C23 witness: tmux was missing and CompositeRecorder.setup ended with the
\* FileNotFoundError of create_session
C23_Witness ==
    /\ Idle
    /\ ret.m = "setup" /\ ret.r = Tmux /\ ret.exc = "FileNotFoundError"
    /\ cret.op = "setup" /\ cret.exc = "FileNotFoundError"
    /\ ~session

\* this step appends the event `what` to the log of the call
Logs(what) ==
    /\ Len(calls') = Len(calls) + 1
    /\ calls'[Len(calls')][1] = what

\* C24: on a live encoder stop_recording writes the quit command, then waits
\* a bounded time; it kills the encoder only when that wait timed out on a
\* running encoder, and the killed encoder has exited before the thread is
\* joined and the file inspected
C24_StopOrder ==
    [][/\ Logs("quit")
          => (m_pc = "v_stop_quit" /\ m_pc' = "v_stop_wait")
       /\ Logs("kill")
          => /\ m_pc = "v_stop_wait"
             /\ \E k \in 1..Len(calls) : calls[k][1] = "quit"
             /\ proc[v_process] = "running"
             /\ proc'[v_process] = "exited"
             /\ m_pc' = "v_stop_finish"
       /\ (m_pc = "v_stop_wait" /\ m_pc' # m_pc /\ ~Logs("kill"))
          => (proc[v_process] = "exited" /\ m_pc' = "v_stop_finish")
       /\ (m_pc' = "v_stop_finish" /\ m_pc # m_pc')
          => m_pc \in {"v_stop_quit", "v_stop_wait"}]_vars

\* C24 witness: a stop that wrote the quit command, timed out waiting and
\* killed the encoder has returned
C24_Witness ==
    /\ Idle
    /\ calls = << <<"stop", Video>>, <<"poll", 1>>, <<"quit", 1>>, <<"kill", 1>> >>
    /\ ret.m = "stop"
    /\ proc[1] = "exited"

\* the process the guard of this stop_recording found running
Polled == {calls[k][2] : k \in {j \in 1..Len(calls) : calls[j][1] = "poll"}}

\* C25: when a stop_recording that passed the liveness guard returns, the
\* encoder process it was stopping has exited
C25_StoppedEncoderExited ==
    [][(m_pc = "v_stop_finish" /\ m_pc' = "idle")
       => \A p \in Polled : proc'[p] = "exited"]_vars

\* C26: whenever stop_recording returns, on any path, the is_recording flag
\* is false, also when the flag was set and no process was alive
C26_StopClearsFlag ==
    [][VideoStopEnds => ~v_is_recording']_vars

C28_OneThreadOneEncoder ==
    /\ Cardinality({t \in Threads : ThreadAlive(t)}) <= 1
    /\ Cardinality({t \in Threads : proc[t] = "running"}) <= 1

\* C29: a stop issued after start and before the capture thread assigned the
\* process handle is not lost: once that stop has returned and the thread has
\* taken its launch step, no encoder process is left running
C29_StopNotLost ==
    (/\ Idle
     /\ n_calls = 2
     /\ calls = << <<"stop", Video>> >>
     /\ thread[1] # "launch"
     /\ thread[2] = "unborn")
    => \A t \in Threads : proc[t] # "running"

\* C30: TmuxAsciinemaRecorder.stop_recording called while recording clears
\* the flag and returns the three output paths and the project name, whether
\* or not asciinema ever wrote its file and whether terminating the session
\* succeeded, failed or raised
C30_TmuxStopResult ==
    [][(Invoked("stop", Tmux) /\ t_is_recording)
       => /\ ~t_is_recording'
          /\ m_pc' = "idle"
          /\ ret'.m = "stop" /\ ret'.r = Tmux /\ ret'.exc = "none"
          /\ DOMAIN ret'.val = {"outputs", "metadata"}
          /\ ret'.val.outputs = [asciinema   |-> "asciinema_file",
                                 zsh_history |-> "zsh_history_file",
                                 tmux_logs   |-> "tmux_log_dir"]
          /\ ret'.val.metadata = [project_name |-> project]]_vars

\* C30 witness: asciinema was never found, so no cast file exists, and the
\* cleanup raised, so the session is still there and no kill-session was
\* sent; the stop returned the result all the same
C30_Witness ==
    /\ Idle
    /\ calls = << <<"stop", Tmux>> >>
    /\ ret.m = "stop" /\ ret.val = TmuxResult
    /\ asciinema = "missing"
    /\ session
    /\ ~t_is_recording

TmuxWaitSteps ==
    \/ Invoked("wait", Tmux)
    \/ m_pc = "t_wait_poll" /\ m_pc' # m_pc

\* C32: wait_for_completion on a recording recorder returns only when the
\* existence check reports the session absent, never ends the session
\* itself, and returns once the session has ended
C32_WaitUntilSessionGone ==
    /\ [][/\ (Invoked("wait", Tmux) /\ t_is_recording) => m_pc' = "t_wait_poll"
          /\ (m_pc = "t_wait_poll" /\ m_pc' # m_pc)
               => (~session /\ m_pc' = "idle" /\ ret'.m = "wait" /\ ret'.exc = "none")
          /\ TmuxWaitSteps
               => /\ session' = session
                  /\ <<"kill-session", Tmux>> \notin Range(calls')]_vars
    /\ ((m_pc = "t_wait_poll" /\ ~session) ~> (m_pc = "idle" /\ ret.m = "wait"))

\* C32 witness: a recording recorder waited and returned with the session
\* gone and the flag still set
C32_Witness ==
    /\ Idle
    /\ calls = << <<"wait", Tmux>> >>
    /\ ret.m = "wait" /\ ret.exc = "none"
    /\ t_is_recording
    /\ asciinema = "exited"
    /\ ~session

\* this step is the pause and the check of the screen recorder in the
\* pre-hook of CompositeRecorder.start_recording
PauseAndCheck ==
    /\ c_op = "start"
    /\ m_pc = "idle"
    /\ c_i \in 1..Len(StartCalls)
    /\ StartCalls[c_i][1] = "sleep"
    /\ c_i' = c_i + 1

\* the capture thread of the recorder has ended without an encoder: Popen
\* raised
LaunchFailed ==
    /\ v_thread # None
    /\ thread[v_thread] = "done"
    /\ proc[v_thread] = "none"

\* C33: when after the pause of CompositeRecorder.start_recording the screen
\* recorder is not recording because its encoder failed to launch, the
\* composite emits a warning, does not raise, and goes on to start the others
C33_WarnsWhenEncoderFailed ==
    [][(PauseAndCheck /\ LaunchFailed)
       => /\ Logs("warn")
          /\ c_op' = "start"
          /\ cret'.exc = "none"]_vars

\* the start_recording calls CompositeRecorder.start_recording makes, in order
StartOrder == SelectSeq(StartCalls, LAMBDA e : e[1] = "start")

\* C34: when a member's start_recording raises during
\* CompositeRecorder.start_recording, the exception reaches the caller and no
\* member ordered after the failing one is started: the starts in the log are
\* those up to the failing member, and the raise ends the log
C34_StartAbortsOnFirstFailure ==
    (StartLog /\ Idle /\ \E j \in DOMAIN calls : calls[j][1] = "raise")
    => /\ cret = [op |-> "start", exc |-> ret.exc, val |-> EmptyDict]
       /\ ret.m = "start"
       /\ ret.exc # "none"
       /\ calls[Len(calls)] = <<"raise", ret.r>>
       /\ \E k \in 1..Len(StartOrder) :
            /\ MemberEvents("start", calls) = SubSeq(StartOrder, 1, k)
            /\ StartOrder[k] = <<"start", ret.r>>

\* C34 witness: the terminal recorder's start raised; the member registered
\* before it, which is started after it, was not started
C34_Witness ==
    /\ Idle
    /\ recorders = <<Fake, Tmux>>
    /\ tmux_recorder = Tmux
    /\ calls = << <<"start", Composite>>, <<"start", Tmux>>,
                  <<"asciinema", Tmux>>, <<"raise", Tmux>> >>
    /\ cret = [op |-> "start", exc |-> "RuntimeError", val |-> EmptyDict]

\* C35: after a CompositeRecorder.start_recording that raised partway, the
\* stop_recording that follows stops every member that had been started:
\* once it has returned, no encoder process of the screen recorder is running
C35_NothingLeftRunning ==
    phase = "recovered" => \A t \in Threads : proc[t] # "running"

\* a comes before b in list l
Before(l, a, b) == IndexOf(l, a) < IndexOf(l, b)

\* C36: in a CompositeRecorder constructed with no recorders, after any
\* add_recorder and remove_recorder calls the collection holds no recorder
\* twice, each tracked reference is unset or refers to a member, the members
\* keep their relative order and a new member goes last
C36_CollectionWellFormed ==
    /\ [](/\ Cardinality(Range(recorders)) = Len(recorders)
          /\ tmux_recorder \in {None} \cup Range(recorders)
          /\ video_recorder \in {None} \cup Range(recorders))
    /\ [][/\ \A a, b \in Range(recorders) \cap Range(recorders') :
               Before(recorders, a, b) = Before(recorders', a, b)
          /\ \A r \in Range(recorders') \ Range(recorders) :
               recorders'[Len(recorders')] = r]_vars

\* C36 witness: two recorders were added to the empty composite and the first
\* was removed again: the other one is left, still tracked
C36_Witness ==
    /\ Idle
    /\ n_calls = 3
    /\ calls = << <<"remove", Tmux>> >>
    /\ recorders = <<Video>>
    /\ tmux_recorder = None
    /\ video_recorder = Video

\* the members in the order the claim gives: the tracked screen recorder, the
\* tracked terminal recorder, the other members in registration order
ScreenTerminalOthers ==
    (IF video_recorder # None THEN <<video_recorder>> ELSE <<>>)
    \o (IF tmux_recorder # None THEN <<tmux_recorder>> ELSE <<>>)
    \o SelectSeq(recorders, LAMBDA r : r \notin {video_recorder, tmux_recorder})

\* C37: a CompositeRecorder.start_recording that passed its guard and
\* returned normally has called start_recording on every registered member
\* exactly once: the tracked screen recorder first, the tracked terminal
\* recorder second, then the other members in registration order
C37_StartsEveryMemberOnce ==
    [][CompositeReturns("start")
       => LET started == MemberEvents("start", calls) IN
          /\ started = Each("start", ScreenTerminalOthers)
          /\ Len(started) = Len(recorders)
          /\ {e[2] : e \in Range(started)} = Range(recorders)
          /\ c_is_recording]_vars

\* C37 witness: with the screen and the terminal recorder tracked and a third
\* member registered before them, start_recording returned after starting the
\* screen recorder, the terminal recorder and the third member, in this order
C37_Witness ==
    /\ Idle
    /\ recorders = <<Fake, Tmux, Video>>
    /\ tmux_recorder = Tmux
    /\ video_recorder = Video
    /\ cret = [op |-> "start", exc |-> "none", val |-> EmptyDict]
    /\ MemberEvents("start", calls)
         = << <<"start", Video>>, <<"start", Tmux>>, <<"start", Fake>> >>

\* C38: in a populated result of VideoRecorder.stop_recording the formatted
\* time has minutes < 60 and seconds < 60, and its hours, minutes and seconds
\* add up to the whole seconds elapsed between start and stop, for durations
\* of a day or more too
C38_TimeIsElapsed ==
    [][(m_pc = "v_stop_finish" /\ m_pc' = "idle" /\ Truthy(ret'.val))
       => LET t == ret'.val.metadata.time IN
          /\ t.minutes < 60
          /\ t.seconds < 60
          /\ t.hours * 3600 + t.minutes * 60 + t.seconds = now - started_at]_vars

====
